---- MODULE Spec2Model ----
(***************************************************************************)
(* Model of the SearchApp component: the filter collection, the query      *)
(* builder and the lifecycle of the asynchronous search request.           *)
(*                                                                         *)
(* The component state (SearchAppState) is the six variables query,        *)
(* filters, searchState, searchResponse, searchQuery and sources.  The     *)
(* environment is the list of promises returned by api.search (requests,   *)
(* one entry per call, "pending" until its .then/.catch handler has run),  *)
(* the promise api.sources (sourcesFetch) and the id generator (nextId).   *)
(* lastOp is a history variable: the handler that ran last, with its       *)
(* argument, the argument it passed to api.search or the outcome it        *)
(* handled.  events counts the steps of the run.  batch is used by the     *)
(* specification with batching only (see SpecBatch).                       *)
(*                                                                         *)
(* Every handler invocation is one event: the state updates it queues are  *)
(* applied before the next event is handled, so inside an updater          *)
(* this.state and prevState are the same state.  The operators that model  *)
(* updaters still take both, in the way the code reads them.  resetQuery   *)
(* and onSearchRelated are wired only into the branch of render that is    *)
(* shown while searchQuery is set, and are enabled only there.             *)
(***************************************************************************)
EXTENDS Naturals, Sequences, FiniteSets

VARIABLES query, filters, searchState, searchResponse, searchQuery, sources,
          requests, sourcesFetch, nextId, lastOp, events, batch

appState == <<query, filters, searchState, searchResponse, searchQuery, sources>>
vars == <<query, filters, searchState, searchResponse, searchQuery, sources,
          requests, sourcesFetch, nextId, lastOp, events, batch>>

(* ---------------------------- bounds ----------------------------------- *)
\* number of events (handler invocations and promise settlements) in a run
MaxEvents == 5

\* number of events (handler invocations and flushes) in a run with batching
MaxBatchEvents == 5

\* number of events other than the settling of a request in a run where
\* every request settles
MaxLiveEvents == 4

(* ---------------------------- values ----------------------------------- *)
\* JavaScript undefined (an optional field that is absent)
Undefined == [undefined |-> TRUE]

Truthy(v) == v # Undefined

\* FilterType
FT_TEMPORAL == "TEMPORAL"
FT_RELATED_FILE == "RELATED_FILE"
FT_GEO_SPATIAL == "GEO_SPATIAL"
FT_SOURCE == "SOURCE"
FilterType == {FT_TEMPORAL, FT_RELATED_FILE, FT_GEO_SPATIAL, FT_SOURCE}

\* SearchState
CLEAN == "CLEAN"
SEARCH_REQUESTING == "SEARCH_REQUESTING"
SEARCH_SUCCESS == "SEARCH_SUCCESS"
SEARCH_FAILED == "SEARCH_FAILED"

\* free text the user can type
Texts == {"", "flood data"}

\* related-file descriptors
RelatedFiles == {[relatedFile |-> "d0"], [relatedFile |-> "d1"]}

\* the payloads a filter widget of each type reports (undefined when cleared)
WidgetValues(type) ==
  CASE type = FT_TEMPORAL -> {[temporal |-> "2019"]}
    [] type = FT_GEO_SPATIAL -> {[geo |-> "nyc"]}
    [] type = FT_RELATED_FILE -> RelatedFiles
    [] type = FT_SOURCE -> {[src |-> <<"s1">>]}

\* what the widget created for filter id can pass to updateFilterState; the
\* widget of a filter that has been removed can still report through the
\* callback it was given, and its kind is no longer on record
ReportedValues(fs, id) ==
  {Undefined} \cup
    IF \E k \in 1..Len(fs) : fs[k].id = id
    THEN UNION {WidgetValues(fs[i].type) : i \in {k \in 1..Len(fs) : fs[k].id = id}}
    ELSE UNION {WidgetValues(t) : t \in FilterType}

DEFAULT_SOURCES == [src |-> <<>>]
FETCHED_SOURCES == [src |-> <<"s1", "s2">>]

\* raw result lists a backend response can carry; the aggregator fails
\* internally on a list that holds a malformed record
RawResults == {<<"r1">>, <<"r2", "r2">>, <<"malformed">>}

\* api.RequestResult
RR_SUCCESS == "SUCCESS"
RR_ERROR == "ERROR"

\* what the promise returned by api.search can resolve to
Responses ==
  {[status |-> RR_SUCCESS, data |-> [results |-> raw]] : raw \in RawResults}
    \cup {[status |-> RR_SUCCESS, data |-> Undefined],
          [status |-> RR_ERROR, data |-> Undefined],
          [status |-> RR_ERROR, data |-> [results |-> <<"r1">>]]}

(* ------------------------- pure helpers -------------------------------- *)
\* Array.prototype.map
RECURSIVE MapStates(_)
MapStates(fs) ==
  IF fs = <<>> THEN <<>> ELSE <<Head(fs).state>> \o MapStates(Tail(fs))

\* array[0]: undefined when the array is empty
First(arr) == IF Len(arr) > 0 THEN arr[1] ELSE Undefined

\* generateRandomId
GenerateRandomId == nextId

\* aggregateResults: the merge of the repeated records of the raw list
RECURSIVE MergeRepeated(_)
MergeRepeated(raw) ==
  IF raw = <<>> THEN <<>>
  ELSE LET rest == MergeRepeated(Tail(raw))
       IN IF \E i \in 1..Len(rest) : rest[i] = Head(raw)
          THEN rest ELSE <<Head(raw)>> \o rest

\* aggregateResults: TRUE when the aggregation fails internally on raw
AggregatorFails(raw) == \E i \in 1..Len(raw) : raw[i] = "malformed"

\* aggregateResults: an internal error is absorbed and gives the empty result set
AggregateResults(raw) ==
  IF AggregatorFails(raw) THEN <<>> ELSE MergeRepeated(raw)

(* ------------------------- the handlers -------------------------------- *)
\* removeFilter: the object form of setState, computed from this.state
\* removeFilter taking out the filters created after the one removed as well
RemoveFilterAndNewer(thisFilters, filterId) ==
  SelectSeq(thisFilters, LAMBDA f : f.id < filterId)

RemoveFilter(thisFilters, filterId) ==
  SelectSeq(thisFilters, LAMBDA f : f.id # filterId)

\* validQuery with the test of f.state dropped: any filter makes the query valid
ValidQueryAnyFilter(q, fs) ==
  IF q # "" THEN TRUE
  ELSE IF Len(fs) > 0 THEN TRUE
  ELSE FALSE

\* validQuery
ValidQuery(q, fs) ==
  IF q # "" THEN TRUE
  ELSE IF Len(SelectSeq(fs, LAMBDA f : Truthy(f.state))) > 0 THEN TRUE
  ELSE FALSE

\* updateFilterState with the test of filter.id dropped: every filter gets the state
UpdateFilterStateAll(prevFilters, filterId, state) ==
  [i \in 1..Len(prevFilters) |-> [prevFilters[i] EXCEPT !.state = state]]

\* updateFilterState: the updater, computed from prevState
UpdateFilterState(prevFilters, filterId, state) ==
  [i \in 1..Len(prevFilters) |->
     IF prevFilters[i].id = filterId
     THEN [prevFilters[i] EXCEPT !.state = state]
     ELSE prevFilters[i]]

\* updateFilterState: the value of found after the map (console.warn when FALSE)
Found(prevFilters, filterId) ==
  \E i \in 1..Len(prevFilters) : prevFilters[i].id = filterId

\* handleAddFilter with the SOURCE test dropped from the singleton condition
AddIsDuplicateRelatedOnly(prevFilters, filterType) ==
  /\ filterType = FT_RELATED_FILE
  /\ Len(SelectSeq(prevFilters, LAMBDA f : f.type = filterType)) > 0

\* handleAddFilter: TRUE when the updater returns the collection unchanged
AddIsDuplicate(prevFilters, filterType) ==
  /\ filterType = FT_RELATED_FILE \/ filterType = FT_SOURCE
  /\ Len(SelectSeq(prevFilters, LAMBDA f : f.type = filterType)) > 0

\* handleAddFilter answering a duplicate by a fresh filter in place of the old one
HandleAddFilterReplaces(prevFilters, filterType, filterId) ==
  IF AddIsDuplicate(prevFilters, filterType)
  THEN [i \in 1..Len(prevFilters) |->
          IF prevFilters[i].type = filterType
          THEN [prevFilters[i] EXCEPT !.state = Undefined, !.hidden = FALSE]
          ELSE prevFilters[i]]
  ELSE <<[id |-> filterId, type |-> filterType, hidden |-> FALSE,
          state |-> Undefined]>> \o prevFilters

\* handleAddFilter putting the new filter at the end of the collection
HandleAddFilterAppends(prevFilters, filterType, filterId) ==
  IF AddIsDuplicate(prevFilters, filterType)
  THEN prevFilters
  ELSE prevFilters \o <<[id |-> filterId, type |-> filterType,
                          hidden |-> FALSE, state |-> Undefined]>>

\* handleAddFilter: the updater, computed from prevState
HandleAddFilter(prevFilters, filterType, filterId) ==
  IF AddIsDuplicate(prevFilters, filterType)
  THEN prevFilters
  ELSE <<[id |-> filterId, type |-> filterType, hidden |-> FALSE,
          state |-> Undefined]>> \o prevFilters

\* submitQuery building the query from the visible filters only
BuildQueryVisibleOnly(q, fs) ==
  LET shown == SelectSeq(fs, LAMBDA f : ~f.hidden)
      filterVariables ==
        MapStates(SelectSeq(SelectSeq(SelectSeq(shown,
          LAMBDA f : f.type # FT_RELATED_FILE),
          LAMBDA f : f.type # FT_SOURCE),
          LAMBDA f : Truthy(f.state)))
      relatedFiles ==
        MapStates(SelectSeq(shown, LAMBDA f : f.type = FT_RELATED_FILE))
      srcs == MapStates(SelectSeq(shown, LAMBDA f : f.type = FT_SOURCE))
  IN [query |-> q, filters |-> filterVariables,
      sources |-> First(srcs), relatedFile |-> First(relatedFiles)]

\* submitQuery with the filter on f.state dropped from filterVariables
BuildQueryKeepsAbsent(q, fs) ==
  LET filterVariables ==
        MapStates(SelectSeq(SelectSeq(fs,
          LAMBDA f : f.type # FT_RELATED_FILE),
          LAMBDA f : f.type # FT_SOURCE))
      relatedFiles ==
        MapStates(SelectSeq(fs, LAMBDA f : f.type = FT_RELATED_FILE))
      srcs == MapStates(SelectSeq(fs, LAMBDA f : f.type = FT_SOURCE))
  IN [query |-> q, filters |-> filterVariables,
      sources |-> First(srcs), relatedFile |-> First(relatedFiles)]

\* submitQuery: the query object built from this.state
BuildQuery(q, fs) ==
  LET filterVariables ==
        MapStates(SelectSeq(SelectSeq(SelectSeq(fs,
          LAMBDA f : f.type # FT_RELATED_FILE),
          LAMBDA f : f.type # FT_SOURCE),
          LAMBDA f : Truthy(f.state)))
      relatedFiles ==
        MapStates(SelectSeq(fs, LAMBDA f : f.type = FT_RELATED_FILE))
      srcs == MapStates(SelectSeq(fs, LAMBDA f : f.type = FT_SOURCE))
  IN [query |-> q, filters |-> filterVariables,
      sources |-> First(srcs), relatedFile |-> First(relatedFiles)]

\* submitQuery hiding all filters but the first
HideAllButFirst(fs) ==
  [i \in 1..Len(fs) |-> IF i = 1 THEN fs[i] ELSE [fs[i] EXCEPT !.hidden = TRUE]]

\* submitQuery: filters.map(f => ({...f, hidden: true}))
HideAll(fs) == [i \in 1..Len(fs) |-> [fs[i] EXCEPT !.hidden = TRUE]]

\* toggleFilter: the updater, which maps this.state.filters and not prevState
\* toggleFilter setting hidden in place of flipping it
ToggleFilterHides(thisFilters, prevFilters, itemId) ==
  [i \in 1..Len(thisFilters) |->
     IF thisFilters[i].id = itemId
     THEN [thisFilters[i] EXCEPT !.hidden = TRUE]
     ELSE thisFilters[i]]

ToggleFilter(thisFilters, prevFilters, itemId) ==
  [i \in 1..Len(thisFilters) |->
     IF thisFilters[i].id = itemId
     THEN [thisFilters[i] EXCEPT !.hidden = ~thisFilters[i].hidden]
     ELSE thisFilters[i]]

\* onSearchRelated: TRUE when the updater takes the "Add new filter" branch
RelatedNeedsNewFilter(thisFilters) ==
  ~(Len(SelectSeq(thisFilters, LAMBDA f : f.type = FT_RELATED_FILE)) > 0)

\* onSearchRelated putting a new filter at the front of the collection
OnSearchRelatedPrepends(thisFilters, prevFilters, relatedFile, filterId) ==
  LET relatedFileFilters ==
        SelectSeq(thisFilters, LAMBDA f : f.type = FT_RELATED_FILE)
  IN IF Len(relatedFileFilters) > 0
     THEN [i \in 1..Len(thisFilters) |->
             IF thisFilters[i].id = relatedFileFilters[1].id
             THEN [relatedFileFilters[1] EXCEPT !.state = relatedFile]
             ELSE thisFilters[i]]
     ELSE <<[id |-> filterId, type |-> FT_RELATED_FILE,
             hidden |-> FALSE, state |-> relatedFile]>> \o thisFilters

\* onSearchRelated with the test of filter.id dropped in the update branch
OnSearchRelatedNoIdTest(thisFilters, prevFilters, relatedFile, filterId) ==
  LET relatedFileFilters ==
        SelectSeq(thisFilters, LAMBDA f : f.type = FT_RELATED_FILE)
  IN IF Len(relatedFileFilters) > 0
     THEN [i \in 1..Len(thisFilters) |->
             [relatedFileFilters[1] EXCEPT !.state = relatedFile]]
     ELSE thisFilters \o <<[id |-> filterId, type |-> FT_RELATED_FILE,
                            hidden |-> FALSE, state |-> relatedFile]>>

\* onSearchRelated always taking the "Add new filter" branch
OnSearchRelatedAlwaysAdd(thisFilters, prevFilters, relatedFile, filterId) ==
  thisFilters \o <<[id |-> filterId, type |-> FT_RELATED_FILE,
                    hidden |-> FALSE, state |-> relatedFile]>>

\* onSearchRelated: the updater, which reads this.state.filters and not prevState
OnSearchRelated(thisFilters, prevFilters, relatedFile, filterId) ==
  LET relatedFileFilters ==
        SelectSeq(thisFilters, LAMBDA f : f.type = FT_RELATED_FILE)
  IN IF Len(relatedFileFilters) > 0
     THEN [i \in 1..Len(thisFilters) |->
             IF thisFilters[i].id = relatedFileFilters[1].id
             THEN [relatedFileFilters[1] EXCEPT !.state = relatedFile]
             ELSE thisFilters[i]]
     ELSE thisFilters \o <<[id |-> filterId, type |-> FT_RELATED_FILE,
                            hidden |-> FALSE, state |-> relatedFile]>>

\* the promise-settling outcomes of api.search(query): a response or a rejection
Outcomes == Responses \cup {[rejected |-> TRUE]}

\* the .then handler with the test of response.data dropped
StateAfterStatusOnly(outcome) ==
  IF outcome \in Responses
  THEN IF outcome.status = RR_SUCCESS
       THEN SEARCH_SUCCESS ELSE SEARCH_FAILED
  ELSE SEARCH_FAILED

\* the .then handler taking an empty aggregated list for a failure
StateAfterEmptyFails(outcome) ==
  IF outcome \in Responses
  THEN IF /\ outcome.status = RR_SUCCESS /\ Truthy(outcome.data)
          /\ AggregateResults(outcome.data.results) # <<>>
       THEN SEARCH_SUCCESS ELSE SEARCH_FAILED
  ELSE SEARCH_FAILED

\* the .then handler with its else branch missing: a response that is not a
\* success with data leaves the lifecycle in Requesting
StateAfterNoElse(outcome) ==
  IF outcome \in Responses
  THEN IF outcome.status = RR_SUCCESS /\ Truthy(outcome.data)
       THEN SEARCH_SUCCESS ELSE SEARCH_REQUESTING
  ELSE SEARCH_FAILED

\* the .then/.catch handlers: the lifecycle state a settled request sets
StateAfter(outcome) ==
  IF outcome \in Responses
  THEN IF outcome.status = RR_SUCCESS /\ Truthy(outcome.data)
       THEN SEARCH_SUCCESS ELSE SEARCH_FAILED
  ELSE SEARCH_FAILED

\* the .then handler storing results only when no response is stored yet
ResponseAfterKeepsStored(outcome, prevResponse) ==
  IF /\ outcome \in Responses /\ outcome.status = RR_SUCCESS
     /\ Truthy(outcome.data) /\ prevResponse = Undefined
  THEN [results |-> AggregateResults(outcome.data.results)]
  ELSE prevResponse

\* the .then/.catch handlers: the stored response after a settled request
ResponseAfter(outcome, prevResponse) ==
  IF outcome \in Responses /\ outcome.status = RR_SUCCESS /\ Truthy(outcome.data)
  THEN [results |-> AggregateResults(outcome.data.results)]
  ELSE prevResponse

(* ----------------------------- actions --------------------------------- *)
\* every action is one event of the run, counted up to MaxEvents
Tick == events < MaxEvents /\ events' = events + 1

\* initialState
InitialState ==
  [query |-> "", searchQuery |-> Undefined, searchResponse |-> Undefined,
   searchState |-> CLEAN, filters |-> <<>>, sources |-> DEFAULT_SOURCES]

\* constructor: this.state = this.initialState(); componentDidMount starts the fetch
Init ==
  /\ query = InitialState.query
  /\ searchQuery = InitialState.searchQuery
  /\ searchResponse = InitialState.searchResponse
  /\ searchState = InitialState.searchState
  /\ filters = InitialState.filters
  /\ sources = InitialState.sources
  /\ requests = <<>>
  /\ sourcesFetch = "pending"
  /\ nextId = 1
  /\ lastOp = [op |-> "init"]
  /\ events = 0
  /\ batch = [queue |-> <<>>,
              serial |-> [query |-> InitialState.query,
                          filters |-> InitialState.filters, nextId |-> 1]]

\* fetchSources: api.sources resolved
FetchSourcesOk ==
  /\ sourcesFetch = "pending"
  /\ sourcesFetch' = "resolved"
  /\ sources' = FETCHED_SOURCES
  /\ Tick
  /\ UNCHANGED batch
  /\ lastOp' = [op |-> "fetchSourcesOk"]
  /\ UNCHANGED <<query, filters, searchState, searchResponse, searchQuery,
                 requests, nextId>>

\* fetchSources: the catch block failing the search as well
FetchSourcesFailFailsSearch ==
  /\ sourcesFetch = "pending"
  /\ sourcesFetch' = "rejected"
  /\ searchState' = SEARCH_FAILED
  /\ Tick
  /\ UNCHANGED batch
  /\ lastOp' = [op |-> "fetchSourcesFail"]
  /\ UNCHANGED <<query, filters, searchResponse, searchQuery,
                 sources, requests, nextId>>

\* fetchSources: api.sources rejected, the catch block logs
FetchSourcesFail ==
  /\ sourcesFetch = "pending"
  /\ sourcesFetch' = "rejected"
  /\ Tick
  /\ UNCHANGED batch
  /\ lastOp' = [op |-> "fetchSourcesFail"]
  /\ UNCHANGED <<query, filters, searchState, searchResponse, searchQuery,
                 sources, requests, nextId>>

\* render: the branch that shows the reset link and the search results
ResultsRendered == Truthy(searchQuery)

\* resetQuery leaving the source list as it is
ResetQueryKeepsSources ==
  /\ ResultsRendered
  /\ query' = InitialState.query
  /\ searchQuery' = InitialState.searchQuery
  /\ searchResponse' = InitialState.searchResponse
  /\ searchState' = InitialState.searchState
  /\ filters' = InitialState.filters
  /\ Tick
  /\ UNCHANGED batch
  /\ lastOp' = [op |-> "reset"]
  /\ UNCHANGED <<sources, requests, sourcesFetch, nextId>>

\* resetQuery leaving the filter collection as it is
ResetQueryKeepFilters ==
  /\ ResultsRendered
  /\ query' = InitialState.query
  /\ searchQuery' = InitialState.searchQuery
  /\ searchResponse' = InitialState.searchResponse
  /\ searchState' = InitialState.searchState
  /\ sources' = InitialState.sources
  /\ Tick
  /\ UNCHANGED batch
  /\ lastOp' = [op |-> "reset"]
  /\ UNCHANGED <<filters, requests, sourcesFetch, nextId>>

\* resetQuery: setState(this.initialState()), reached from the reset link
ResetQuery ==
  /\ ResultsRendered
  /\ query' = InitialState.query
  /\ searchQuery' = InitialState.searchQuery
  /\ searchResponse' = InitialState.searchResponse
  /\ searchState' = InitialState.searchState
  /\ filters' = InitialState.filters
  /\ sources' = InitialState.sources
  /\ Tick
  /\ UNCHANGED batch
  /\ lastOp' = [op |-> "reset"]
  /\ UNCHANGED <<requests, sourcesFetch, nextId>>

\* onQueryChange writing the text into the active query as well
SetQueryRewritesActive(q) ==
  /\ query' = q
  /\ searchQuery' = IF Truthy(searchQuery)
                    THEN [searchQuery EXCEPT !.query = q] ELSE searchQuery
  /\ Tick
  /\ UNCHANGED batch
  /\ lastOp' = [op |-> "setQuery"]
  /\ UNCHANGED <<filters, searchState, searchResponse, sources,
                 requests, sourcesFetch, nextId>>

\* onQueryChange
SetQuery(q) ==
  /\ query' = q
  /\ Tick
  /\ UNCHANGED batch
  /\ lastOp' = [op |-> "setQuery"]
  /\ UNCHANGED <<filters, searchState, searchResponse, searchQuery, sources,
                 requests, sourcesFetch, nextId>>

\* removeFilter
DoRemoveFilter(filterId) ==
  /\ filters' = RemoveFilter(filters, filterId)
  /\ Tick
  /\ UNCHANGED batch
  /\ lastOp' = [op |-> "remove", id |-> filterId]
  /\ UNCHANGED <<query, searchState, searchResponse, searchQuery, sources,
                 requests, sourcesFetch, nextId>>

\* updateFilterState
DoUpdateFilterState(filterId, state) ==
  /\ filters' = UpdateFilterState(filters, filterId, state)
  /\ Tick
  /\ UNCHANGED batch
  /\ lastOp' = [op |-> "update", id |-> filterId, state |-> state,
                warned |-> ~Found(filters, filterId)]
  /\ UNCHANGED <<query, searchState, searchResponse, searchQuery, sources,
                 requests, sourcesFetch, nextId>>

\* handleAddFilter
DoHandleAddFilter(filterType) ==
  /\ filters' = HandleAddFilter(filters, filterType, GenerateRandomId)
  /\ nextId' = IF AddIsDuplicate(filters, filterType) THEN nextId ELSE nextId + 1
  /\ Tick
  /\ UNCHANGED batch
  /\ lastOp' = [op |-> "add", type |-> filterType,
                duplicate |-> AddIsDuplicate(filters, filterType)]
  /\ UNCHANGED <<query, searchState, searchResponse, searchQuery, sources,
                 requests, sourcesFetch>>

\* toggleFilter
DoToggleFilter(itemId) ==
  /\ filters' = ToggleFilter(filters, filters, itemId)
  /\ Tick
  /\ UNCHANGED batch
  /\ lastOp' = [op |-> "toggle", id |-> itemId]
  /\ UNCHANGED <<query, searchState, searchResponse, searchQuery, sources,
                 requests, sourcesFetch, nextId>>

\* submitQuery: the argument of api.search, undefined when no request is issued
Sent(q, fs) == IF ValidQuery(q, fs) THEN BuildQuery(q, fs) ELSE Undefined

\* submitQuery dropping the filters that have no value
SubmitFromDropsUnvalued(q, fs) ==
  IF ValidQuery(q, fs)
  THEN /\ searchQuery' = BuildQuery(q, fs)
       /\ searchState' = SEARCH_REQUESTING
       /\ filters' = HideAll(SelectSeq(fs, LAMBDA f : Truthy(f.state)))
       /\ requests' = Append(requests, "pending")
  ELSE /\ filters' = fs
       /\ UNCHANGED <<searchQuery, searchState, requests>>

\* submitQuery applied to the state (q, fs): the state it sets and the request it issues
SubmitFrom(q, fs) ==
  IF ValidQuery(q, fs)
  THEN /\ searchQuery' = BuildQuery(q, fs)
       /\ searchState' = SEARCH_REQUESTING
       /\ filters' = HideAll(fs)
       /\ requests' = Append(requests, "pending")
  ELSE /\ filters' = fs
       /\ UNCHANGED <<searchQuery, searchState, requests>>

\* submitQuery doing nothing while a search is being requested
SubmitQueryUnlessRequesting ==
  /\ IF searchState = SEARCH_REQUESTING
     THEN UNCHANGED <<filters, searchQuery, searchState, requests>>
     ELSE SubmitFrom(query, filters)
  /\ Tick
  /\ UNCHANGED batch
  /\ lastOp' = [op |-> "submit", sent |-> Sent(query, filters)]
  /\ UNCHANGED <<query, searchResponse, sources, sourcesFetch, nextId>>

\* submitQuery
SubmitQuery ==
  /\ SubmitFrom(query, filters)
  /\ Tick
  /\ UNCHANGED batch
  /\ lastOp' = [op |-> "submit", sent |-> Sent(query, filters)]
  /\ UNCHANGED <<query, searchResponse, sources, sourcesFetch, nextId>>

\* onSearchRelated, reached from the search results: the updater, then
\* submitQuery as the setState callback
DoSearchRelated(relatedFile) ==
  LET upserted == OnSearchRelated(filters, filters, relatedFile, GenerateRandomId)
  IN /\ ResultsRendered
     /\ SubmitFrom(query, upserted)
     /\ nextId' = IF RelatedNeedsNewFilter(filters) THEN nextId + 1 ELSE nextId
     /\ Tick
     /\ UNCHANGED batch
     /\ lastOp' = [op |-> "searchRelated", relatedFile |-> relatedFile,
                   previous |-> First(MapStates(SelectSeq(filters,
                                  LAMBDA f : f.type = FT_RELATED_FILE))),
                   upserted |-> upserted,
                   sent |-> Sent(query, upserted)]
     /\ UNCHANGED <<query, searchResponse, sources, sourcesFetch>>

\* the .then/.catch handlers submitting the query again after a failure
SearchSettlesRetries(i, outcome) ==
  /\ requests[i] = "pending"
  /\ requests' = IF StateAfter(outcome) = SEARCH_FAILED
                 THEN Append([requests EXCEPT ![i] = "settled"], "pending")
                 ELSE [requests EXCEPT ![i] = "settled"]
  /\ searchState' = StateAfter(outcome)
  /\ searchResponse' = ResponseAfter(outcome, searchResponse)
  /\ Tick
  /\ UNCHANGED batch
  /\ lastOp' = [op |-> "response", req |-> i, outcome |-> outcome]
  /\ UNCHANGED <<query, filters, searchQuery, sources, sourcesFetch, nextId>>

\* the promise of request i settles and its .then/.catch handler runs
SearchSettles(i, outcome) ==
  /\ requests[i] = "pending"
  /\ requests' = [requests EXCEPT ![i] = "settled"]
  /\ searchState' = StateAfter(outcome)
  /\ searchResponse' = ResponseAfter(outcome, searchResponse)
  /\ Tick
  /\ UNCHANGED batch
  /\ lastOp' = [op |-> "response", req |-> i, outcome |-> outcome]
  /\ UNCHANGED <<query, filters, searchQuery, sources, sourcesFetch, nextId>>

\* the filter ids handed out so far (live filters and removed ones)
IssuedIds == 1..(nextId - 1)

Next ==
  \/ FetchSourcesOk
  \/ FetchSourcesFail
  \/ ResetQuery
  \/ \E q \in Texts : SetQuery(q)
  \/ \E id \in IssuedIds : DoRemoveFilter(id)
  \/ \E id \in IssuedIds :
       \E v \in ReportedValues(filters, id) : DoUpdateFilterState(id, v)
  \/ \E t \in FilterType : DoHandleAddFilter(t)
  \/ \E id \in IssuedIds : DoToggleFilter(id)
  \/ SubmitQuery
  \/ \E d \in RelatedFiles : DoSearchRelated(d)
  \/ \E i \in 1..Len(requests) : \E o \in Outcomes : SearchSettles(i, o)

Spec == Init /\ [][Next]_vars

(* ------------------- handlers invoked in one batch --------------------- *)
(* SpecBatch lets several handlers be invoked before React applies the     *)
(* updates they queued.  setState(object) queues the object, computed from *)
(* this.state when the handler runs; setState(updater) queues the updater, *)
(* which runs at the flush with the accumulated prevState while this.state *)
(* is still the state committed before the batch.  batch.queue is the      *)
(* update queue; batch.serial is the query, collection and id generator    *)
(* that result from applying the invoked handlers one after another.       *)

BatchTick == events < MaxBatchEvents /\ events' = events + 1

\* the part of the component state a queued update can change
Committed ==
  [query |-> query, filters |-> filters, searchQuery |-> searchQuery,
   searchState |-> searchState, nextId |-> nextId]

\* one queued update u applied to the accumulated state st at the flush
ApplyUpdate(u, st, thisFilters) ==
  CASE u.op = "setQuery" -> [st EXCEPT !.query = u.query]
    [] u.op = "remove" -> [st EXCEPT !.filters = u.filters]
    [] u.op = "submit" ->
         [st EXCEPT !.filters = u.filters, !.searchQuery = u.searchQuery,
                    !.searchState = SEARCH_REQUESTING]
    [] u.op = "update" ->
         [st EXCEPT !.filters = UpdateFilterState(st.filters, u.id, u.state)]
    [] u.op = "add" ->
         [st EXCEPT !.filters = HandleAddFilter(st.filters, u.type, st.nextId),
                    !.nextId = IF AddIsDuplicate(st.filters, u.type)
                               THEN st.nextId ELSE st.nextId + 1]
    [] u.op = "toggle" ->
         [st EXCEPT !.filters = ToggleFilter(thisFilters, st.filters, u.id)]
    [] u.op = "searchRelated" ->
         [st EXCEPT !.filters = OnSearchRelated(thisFilters, st.filters,
                                                u.relatedFile, st.nextId),
                    !.nextId = IF RelatedNeedsNewFilter(thisFilters)
                               THEN st.nextId + 1 ELSE st.nextId]

\* the update queue processed in order
RECURSIVE ApplyQueue(_, _, _)
ApplyQueue(queue, st, thisFilters) ==
  IF queue = <<>> THEN st
  ELSE ApplyQueue(Tail(queue), ApplyUpdate(Head(queue), st, thisFilters),
                  thisFilters)

\* the setState callbacks of the queue: one this.submitQuery per onSearchRelated
Callbacks(queue) == Len(SelectSeq(queue, LAMBDA u : u.op = "searchRelated"))

\* submitQuery applied to the serial state g
SerialSubmit(g) ==
  IF ValidQuery(g.query, g.filters)
  THEN [g EXCEPT !.filters = HideAll(g.filters)] ELSE g

\* a handler queues update u; serial is the serial state after the handler
Enqueue(u, serial) ==
  batch' = [queue |-> Append(batch.queue, u), serial |-> serial]

\* onQueryChange invoked
InvokeSetQuery(q) ==
  /\ Enqueue([op |-> "setQuery", query |-> q], [batch.serial EXCEPT !.query = q])
  /\ BatchTick
  /\ lastOp' = [op |-> "setQuery"]
  /\ UNCHANGED <<appState, requests, sourcesFetch, nextId>>

\* removeFilter invoked: the object is computed from this.state
InvokeRemoveFilter(filterId) ==
  /\ Enqueue([op |-> "remove", filters |-> RemoveFilter(filters, filterId)],
             [batch.serial EXCEPT
                !.filters = RemoveFilter(batch.serial.filters, filterId)])
  /\ BatchTick
  /\ lastOp' = [op |-> "remove"]
  /\ UNCHANGED <<appState, requests, sourcesFetch, nextId>>

\* updateFilterState invoked
InvokeUpdateFilterState(filterId, state) ==
  /\ Enqueue([op |-> "update", id |-> filterId, state |-> state],
             [batch.serial EXCEPT
                !.filters = UpdateFilterState(batch.serial.filters,
                                              filterId, state)])
  /\ BatchTick
  /\ lastOp' = [op |-> "update"]
  /\ UNCHANGED <<appState, requests, sourcesFetch, nextId>>

\* handleAddFilter invoked
InvokeHandleAddFilter(filterType) ==
  /\ Enqueue([op |-> "add", type |-> filterType],
             [batch.serial EXCEPT
                !.filters = HandleAddFilter(batch.serial.filters, filterType,
                                            batch.serial.nextId),
                !.nextId = IF AddIsDuplicate(batch.serial.filters, filterType)
                           THEN batch.serial.nextId
                           ELSE batch.serial.nextId + 1])
  /\ BatchTick
  /\ lastOp' = [op |-> "add"]
  /\ UNCHANGED <<appState, requests, sourcesFetch, nextId>>

\* toggleFilter invoked
InvokeToggleFilter(itemId) ==
  /\ Enqueue([op |-> "toggle", id |-> itemId],
             [batch.serial EXCEPT
                !.filters = ToggleFilter(batch.serial.filters,
                                         batch.serial.filters, itemId)])
  /\ BatchTick
  /\ lastOp' = [op |-> "toggle"]
  /\ UNCHANGED <<appState, requests, sourcesFetch, nextId>>

\* submitQuery invoked: validQuery and the query are read from this.state,
\* the object is queued and api.search is called at once
InvokeSubmitQuery ==
  /\ IF ValidQuery(query, filters)
     THEN /\ Enqueue([op |-> "submit", filters |-> HideAll(filters),
                      searchQuery |-> BuildQuery(query, filters)],
                     SerialSubmit(batch.serial))
          /\ requests' = Append(requests, "pending")
     ELSE /\ batch' = [batch EXCEPT !.serial = SerialSubmit(batch.serial)]
          /\ UNCHANGED requests
  /\ BatchTick
  /\ lastOp' = [op |-> "submit"]
  /\ UNCHANGED <<appState, sourcesFetch, nextId>>

\* onSearchRelated invoked: the updater is queued with its callback
InvokeSearchRelated(relatedFile) ==
  /\ ResultsRendered
  /\ Enqueue([op |-> "searchRelated", relatedFile |-> relatedFile],
             SerialSubmit(
               [batch.serial EXCEPT
                  !.filters = OnSearchRelated(batch.serial.filters,
                                batch.serial.filters, relatedFile,
                                batch.serial.nextId),
                  !.nextId = IF RelatedNeedsNewFilter(batch.serial.filters)
                             THEN batch.serial.nextId + 1
                             ELSE batch.serial.nextId]))
  /\ BatchTick
  /\ lastOp' = [op |-> "searchRelated"]
  /\ UNCHANGED <<appState, requests, sourcesFetch, nextId>>

\* React applies the queue and commits; then the callbacks run, each a
\* submitQuery on the committed state
Flush ==
  LET st == ApplyQueue(batch.queue, Committed, filters)
      n == Callbacks(batch.queue)
      resubmits == n > 0 /\ ValidQuery(st.query, st.filters)
  IN /\ batch.queue # <<>>
     /\ query' = st.query
     /\ nextId' = st.nextId
     /\ filters' = IF resubmits THEN HideAll(st.filters) ELSE st.filters
     /\ searchQuery' = IF resubmits THEN BuildQuery(st.query, st.filters)
                       ELSE st.searchQuery
     /\ searchState' = IF resubmits THEN SEARCH_REQUESTING ELSE st.searchState
     /\ requests' = IF resubmits
                    THEN requests \o [i \in 1..n |-> "pending"]
                    ELSE requests
     /\ batch' = [batch EXCEPT !.queue = <<>>]
     /\ BatchTick
     /\ lastOp' = [op |-> "flush"]
     /\ UNCHANGED <<searchResponse, sources, sourcesFetch>>

NextBatch ==
  \/ \E q \in Texts : InvokeSetQuery(q)
  \/ \E id \in IssuedIds : InvokeRemoveFilter(id)
  \/ \E id \in IssuedIds :
       \E v \in ReportedValues(filters, id) : InvokeUpdateFilterState(id, v)
  \/ \E t \in FilterType : InvokeHandleAddFilter(t)
  \/ \E id \in IssuedIds : InvokeToggleFilter(id)
  \/ InvokeSubmitQuery
  \/ \E d \in RelatedFiles : InvokeSearchRelated(d)
  \/ Flush

SpecBatch == Init /\ [][NextBatch]_vars

(* ------------------- every request settles ----------------------------- *)
(* SpecLive is Spec with the settling of a promise of api.search taken out *)
(* of the count of events, so that the bound on the events of a run never  *)
(* stops the backend, and with the condition that a pending promise        *)
(* settles at some time.                                                   *)

\* an event other than the settling of a request can still happen
MayAct == events < MaxLiveEvents

\* the promise of request i settles and its .then/.catch handler runs
Arrival(i, outcome) ==
  /\ requests[i] = "pending"
  /\ requests' = [requests EXCEPT ![i] = "settled"]
  /\ searchState' = StateAfter(outcome)
  /\ searchResponse' = ResponseAfter(outcome, searchResponse)
  /\ lastOp' = [op |-> "response", req |-> i, outcome |-> outcome]
  /\ UNCHANGED <<query, filters, searchQuery, sources, sourcesFetch, nextId,
                 events, batch>>

\* some pending promise settles
SomeArrival == \E i \in 1..Len(requests) : \E o \in Outcomes : Arrival(i, o)

NextLive ==
  \/ MayAct /\ FetchSourcesOk
  \/ MayAct /\ FetchSourcesFail
  \/ MayAct /\ ResetQuery
  \/ MayAct /\ \E q \in Texts : SetQuery(q)
  \/ MayAct /\ \E id \in IssuedIds : DoRemoveFilter(id)
  \/ MayAct /\ \E id \in IssuedIds :
       \E v \in ReportedValues(filters, id) : DoUpdateFilterState(id, v)
  \/ MayAct /\ \E t \in FilterType : DoHandleAddFilter(t)
  \/ MayAct /\ \E id \in IssuedIds : DoToggleFilter(id)
  \/ MayAct /\ SubmitQuery
  \/ MayAct /\ \E d \in RelatedFiles : DoSearchRelated(d)
  \/ SomeArrival

SpecLive == Init /\ [][NextLive]_vars /\ WF_vars(SomeArrival)

(* ------------------------------ claims --------------------------------- *)
\* the positions of the filters of a type
OfType(fs, t) == {i \in 1..Len(fs) : fs[i].type = t}

\* a filter has a present value
SomeValuePresent(fs) == \E i \in 1..Len(fs) : fs[i].state # Undefined

\* the step settles request i (its response or transport failure arrives)
Arrives(i) == requests[i] = "pending" /\ requests'[i] = "settled"

\* the step issues exactly one new request, left pending
IssuesOneRequest ==
  /\ Len(requests') = Len(requests) + 1
  /\ requests'[Len(requests')] = "pending"
  /\ \A i \in 1..Len(requests) : requests'[i] = requests[i]

\* C1: in every reachable state the filter collection holds at most one
\* RelatedFile filter and at most one Source filter.
C1_SingletonInvariant ==
  /\ Cardinality(OfType(filters, FT_RELATED_FILE)) <= 1
  /\ Cardinality(OfType(filters, FT_SOURCE)) <= 1

\* C1 witness: a second add of a singleton kind has just been handled while a
\* RelatedFile filter and a Source filter are both in the collection.
C1_Witness ==
  /\ lastOp.op = "add" /\ lastOp.duplicate
  /\ OfType(filters, FT_RELATED_FILE) # {}
  /\ OfType(filters, FT_SOURCE) # {}

\* C2 (as claimed): when the response of a submission arrives after the
\* response of a later submission has already arrived, it is discarded: the
\* lifecycle state and the stored response keep reflecting the later one.
C2_SupersededNeverOverwrites ==
  [][\A i \in 1..Len(requests) :
       (/\ Arrives(i)
        /\ searchQuery # Undefined
        /\ \E j \in (i + 1)..Len(requests) : requests[j] = "settled")
       => (searchState' = searchState /\ searchResponse' = searchResponse)]_vars

\* C3 (as claimed): while the most recently issued submission is outstanding
\* (and no reset has cleared the active query) the lifecycle stays Requesting,
\* whatever earlier responses arrive.
C3_OnlyLatestLeavesRequesting ==
  (/\ requests # <<>>
   /\ requests[Len(requests)] = "pending"
   /\ searchQuery # Undefined)
  => searchState = SEARCH_REQUESTING

\* C4: a submit is accepted iff the free text is non-empty or some filter has
\* a present value; a rejected submit leaves the whole session state unchanged
\* and issues no request, an accepted one issues a request.
C4_SubmitGuardedByValidity ==
  [][lastOp'.op = "submit" =>
       /\ (lastOp'.sent # Undefined) <=> (query # "" \/ SomeValuePresent(filters))
       /\ lastOp'.sent = Undefined =>
            (appState' = appState /\ requests' = requests)
       /\ lastOp'.sent # Undefined => IssuesOneRequest]_vars

\* C4 witness: a submit has just been rejected while the collection holds a
\* visible filter without a value.
C4_Witness ==
  /\ lastOp.op = "submit" /\ lastOp.sent = Undefined
  /\ \E i \in 1..Len(filters) : ~filters[i].hidden

\* C5: an accepted submit moves the lifecycle to Requesting, hides every
\* filter, records the query built from the free text and the filters as the
\* active query and issues exactly one request carrying it; with no filters
\* that query has filters = [], sources and relatedFile absent.
C5_AcceptedSubmit ==
  [][(lastOp'.op = "submit" /\ lastOp'.sent # Undefined) =>
       /\ searchState' = SEARCH_REQUESTING
       /\ Len(filters') = Len(filters)
       /\ \A i \in 1..Len(filters') : filters'[i].hidden
       /\ searchQuery' = lastOp'.sent
       /\ searchQuery'.query = query
       /\ IssuesOneRequest
       /\ filters = <<>> =>
            searchQuery' = [query |-> query, filters |-> <<>>,
                            sources |-> Undefined, relatedFile |-> Undefined]]_vars

\* C5 witness: a submit has just been accepted as the second submission of the
\* run, with filters in the collection.
C5_Witness ==
  /\ lastOp.op = "submit" /\ lastOp.sent # Undefined
  /\ Len(requests) >= 2
  /\ filters # <<>>

\* C6 (as claimed): the stored response is present only in Success.
C6_ResponseOnlyInSuccess ==
  searchState # SEARCH_SUCCESS => searchResponse = Undefined

\* C7 (as claimed): the active query is absent exactly in Clean.
C7_QueryAbsentIffClean ==
  (searchQuery = Undefined) <=> (searchState = CLEAN)

\* C8: after reset the session is {Clean, no query, no response, no filters,
\* empty free text}.
C8_ResetYieldsInitial ==
  lastOp.op = "reset" =>
    /\ searchState = CLEAN
    /\ searchQuery = Undefined
    /\ searchResponse = Undefined
    /\ filters = <<>>
    /\ query = ""

\* C8 witness: reset has just run while a search request is outstanding.
C8_Witness ==
  /\ lastOp.op = "reset"
  /\ \E i \in 1..Len(requests) : requests[i] = "pending"

\* C9 (as claimed): a response that arrives in the reset state is ignored; the
\* session stays Clean with no query and no response.
C9_ResponseAfterResetIgnored ==
  [][\A i \in 1..Len(requests) :
       (Arrives(i) /\ searchState = CLEAN)
       => (/\ searchState' = CLEAN
           /\ searchQuery' = Undefined
           /\ searchResponse' = Undefined)]_vars

\* C10: after searchRelated(d) there is exactly one RelatedFile filter, its
\* value is d, the lifecycle is Requesting, one request was issued, and the
\* query sent and recorded has relatedFile = d.
C10_SearchRelated ==
  [][lastOp'.op = "searchRelated" =>
       /\ Cardinality(OfType(filters', FT_RELATED_FILE)) = 1
       /\ \A i \in OfType(filters', FT_RELATED_FILE) :
            filters'[i].state = lastOp'.relatedFile
       /\ searchState' = SEARCH_REQUESTING
       /\ IssuesOneRequest
       /\ lastOp'.sent # Undefined
       /\ lastOp'.sent.relatedFile = lastOp'.relatedFile
       /\ searchQuery' = lastOp'.sent]_vars

\* C10 witness: searchRelated(d) has just run on a collection whose
\* RelatedFile filter held another descriptor.
C10_Witness ==
  /\ lastOp.op = "searchRelated"
  /\ lastOp.previous \in RelatedFiles
  /\ lastOp.previous # lastOp.relatedFile

\* the values a built query must carry in filters: those of the Temporal and
\* GeoSpatial filters of fs whose value is present, in collection order
RECURSIVE ExpectedFilters(_)
ExpectedFilters(fs) ==
  IF fs = <<>> THEN <<>>
  ELSE LET f == Head(fs)
       IN IF f.type \in {FT_TEMPORAL, FT_GEO_SPATIAL} /\ f.state # Undefined
          THEN <<f.state>> \o ExpectedFilters(Tail(fs))
          ELSE ExpectedFilters(Tail(fs))

\* the value of the filter of singleton kind t in fs, absent when fs has none
SingletonValue(fs, t) ==
  IF OfType(fs, t) = {} THEN Undefined
  ELSE fs[CHOOSE i \in OfType(fs, t) : \A j \in OfType(fs, t) : i <= j].state

\* C11: the query an accepted submission builds carries the text, in filters
\* the values of exactly the Temporal and GeoSpatial filters whose value is
\* present, in collection order, in sources the Source filter's value and in
\* relatedFile the RelatedFile filter's value, each absent when there is no
\* such filter or value; no filter with absent value contributes.
C11_BuiltQuery ==
  [][(lastOp'.op \in {"submit", "searchRelated"} /\ lastOp'.sent # Undefined)
     => (/\ lastOp'.sent.query = query
         /\ lastOp'.sent.filters = ExpectedFilters(filters')
         /\ lastOp'.sent.sources = SingletonValue(filters', FT_SOURCE)
         /\ lastOp'.sent.relatedFile = SingletonValue(filters', FT_RELATED_FILE)
         /\ \A k \in 1..Len(lastOp'.sent.filters) :
              lastOp'.sent.filters[k] # Undefined)]_vars

\* C11 witness: an accepted submit on a collection that holds a Temporal or
\* GeoSpatial filter with a present value next to one with absent value.
C11_Witness ==
  /\ lastOp.op = "submit"
  /\ lastOp.sent # Undefined
  /\ \E i, j \in 1..Len(filters) :
       /\ filters[i].type \in {FT_TEMPORAL, FT_GEO_SPATIAL}
       /\ filters[i].state # Undefined
       /\ filters[j].type \in {FT_TEMPORAL, FT_GEO_SPATIAL}
       /\ filters[j].state = Undefined

\* C12: adding a Source or RelatedFile filter while one of that kind exists
\* changes nothing: ids, order, visibility and values are kept, and there is
\* still exactly one filter of that kind.
C12_DuplicateAddIsNoOp ==
  [][(/\ lastOp'.op = "add"
      /\ lastOp'.type \in {FT_RELATED_FILE, FT_SOURCE}
      /\ OfType(filters, lastOp'.type) # {})
     => (/\ filters' = filters
         /\ nextId' = nextId
         /\ Cardinality(OfType(filters', lastOp'.type)) = 1)]_vars

\* C12 witness: a Source filter was added again while the Source filter
\* held a value.
C12_Witness ==
  /\ lastOp.op = "add"
  /\ lastOp.type = FT_SOURCE
  /\ lastOp.duplicate
  /\ \E i \in OfType(filters, FT_SOURCE) : filters[i].state # Undefined

\* the outcome of a request is not a success: the transport failed, the
\* status is not success, or the status is success with no data
NonSuccess(outcome) ==
  \/ outcome \notin Responses
  \/ outcome.status # RR_SUCCESS
  \/ outcome.data = Undefined

\* C13: after a request settles with a non-success outcome the lifecycle
\* is Failed.
C13_NonSuccessFails ==
  (lastOp.op = "response" /\ NonSuccess(lastOp.outcome))
    => searchState = SEARCH_FAILED

\* C13 witness: a response with success status and no data has arrived.
C13_Witness ==
  /\ lastOp.op = "response"
  /\ lastOp.outcome \in Responses
  /\ lastOp.outcome.status = RR_SUCCESS
  /\ lastOp.outcome.data = Undefined

\* the outcome is a success with data on which the aggregator fails
AggregatorFailsOn(outcome) ==
  /\ outcome \in Responses
  /\ outcome.status = RR_SUCCESS
  /\ outcome.data # Undefined
  /\ AggregatorFails(outcome.data.results)

C15_NoAutomaticRetry ==
  [][Len(requests') =
       Len(requests)
         + (IF /\ lastOp'.op \in {"submit", "searchRelated"}
               /\ lastOp'.sent # Undefined
            THEN 1 ELSE 0)]_vars

\* C15 witness: the only request issued has failed and an event later no
\* other request exists.
C15_Witness ==
  /\ searchState = SEARCH_FAILED
  /\ Len(requests) = 1
  /\ requests[1] = "settled"
  /\ lastOp.op \notin {"response", "submit", "searchRelated"}

\* C16: whenever no update is queued, the filter collection is the one that
\* results from applying the handlers invoked so far one after another in
\* invocation order.
C16_HandlersAtomic ==
  batch.queue = <<>> => filters = batch.serial.filters

\* the ids of the filters of fs
IdsOf(fs) == {fs[i].id : i \in 1..Len(fs)}

\* C17: the upsert step of searchRelated(d), before the submit that follows
\* hides the filters: when a RelatedFile filter exists its value becomes d,
\* it keeps id, place and visibility and every other filter is unchanged;
\* otherwise a RelatedFile filter with a fresh id, value d and visible is
\* put at the end and the filters before it are unchanged.
C17_UpsertRelatedFile ==
  [][lastOp'.op = "searchRelated" =>
       LET u == lastOp'.upserted
           d == lastOp'.relatedFile
       IN IF OfType(filters, FT_RELATED_FILE) # {}
          THEN /\ Len(u) = Len(filters)
               /\ \A i \in 1..Len(filters) :
                    u[i] = IF filters[i].type = FT_RELATED_FILE
                           THEN [filters[i] EXCEPT !.state = d]
                           ELSE filters[i]
          ELSE /\ Len(u) = Len(filters) + 1
               /\ SubSeq(u, 1, Len(filters)) = filters
               /\ u[Len(u)].type = FT_RELATED_FILE
               /\ u[Len(u)].state = d
               /\ u[Len(u)].hidden = FALSE
               /\ u[Len(u)].id \notin IdsOf(filters) \cup IssuedIds]_vars

\* C17 witness: searchRelated has just put a new RelatedFile filter after
\* the filters the collection held.
C17_Witness ==
  /\ lastOp.op = "searchRelated"
  /\ Len(lastOp.upserted) >= 2
  /\ lastOp.upserted[Len(lastOp.upserted)].id = nextId - 1
  /\ lastOp.upserted[Len(lastOp.upserted)].hidden = FALSE

\* C18: an add that is not a duplicate of a singleton kind puts exactly one
\* new filter at the front, with a fresh id, visible and with absent value;
\* the filters that existed follow it unchanged and in their order.
C18_AddPrepends ==
  [][(/\ lastOp'.op = "add"
      /\ ~(/\ lastOp'.type \in {FT_RELATED_FILE, FT_SOURCE}
           /\ OfType(filters, lastOp'.type) # {}))
     => (/\ Len(filters') = Len(filters) + 1
         /\ Tail(filters') = filters
         /\ Head(filters').type = lastOp'.type
         /\ Head(filters').hidden = FALSE
         /\ Head(filters').state = Undefined
         /\ Head(filters').id \notin IdsOf(filters) \cup IssuedIds)]_vars

\* C18 witness: a filter was added in front of a collection that held a
\* hidden filter with a value.
C18_Witness ==
  /\ lastOp.op = "add"
  /\ ~lastOp.duplicate
  /\ Len(filters) >= 2
  /\ \E i \in 2..Len(filters) :
       filters[i].hidden /\ filters[i].state # Undefined

\* C19: filter ids are unique and stable: no two filters share an id, and a
\* filter that carries an id issued before a step was in the collection
\* before the step with that id and the same kind, so that the id of a
\* removed filter is never given to another one and no step changes the id
\* or the kind of a filter.
C19_IdsUniqueAndStable ==
  [][/\ \A i, j \in 1..Len(filters') :
          filters'[i].id = filters'[j].id => i = j
     /\ \A j \in 1..Len(filters') :
          filters'[j].id \in IssuedIds
            => \E i \in 1..Len(filters) :
                 /\ filters[i].id = filters'[j].id
                 /\ filters[i].type = filters'[j].type]_vars

\* C19 witness: a filter has just been created after another one was
\* removed, next to a filter that stayed.
C19_Witness ==
  /\ lastOp.op \in {"add", "searchRelated"}
  /\ Len(filters) >= 2
  /\ \E id \in IssuedIds : id \notin IdsOf(filters)
  /\ nextId - 1 \in IdsOf(filters)

\* C20: updateValue(id, v) sets the value of the filter with that id to v
\* and leaves its other fields and every other filter as they were; when no
\* filter has that id the collection is unchanged and a warning is emitted.
C20_UpdateValue ==
  [][lastOp'.op = "update" =>
       /\ Len(filters') = Len(filters)
       /\ \A i \in 1..Len(filters) :
            filters'[i] = IF filters[i].id = lastOp'.id
                          THEN [filters[i] EXCEPT !.state = lastOp'.state]
                          ELSE filters[i]
       /\ lastOp'.warned = (lastOp'.id \notin IdsOf(filters))
       /\ lastOp'.warned => filters' = filters
       /\ UNCHANGED <<query, searchState, searchResponse, searchQuery,
                      requests, nextId>>]_vars

\* C20 witness: a value was reported for the id of a removed filter while
\* the collection held other filters, and a warning was emitted.
C20_Witness ==
  /\ lastOp.op = "update"
  /\ lastOp.warned
  /\ lastOp.state # Undefined
  /\ filters # <<>>

\* the place of the filter with the given id in fs
PlaceOf(fs, id) == CHOOSE i \in 1..Len(fs) : fs[i].id = id

\* C21: remove(id) takes out exactly the filter with that id: the filters
\* left are the other ones, each as it was and in the same relative order;
\* with an id that is not in the collection nothing changes.  The lifecycle
\* state, the active query and the stored response are not changed.
C21_RemoveExactlyOne ==
  [][lastOp'.op = "remove" =>
       /\ IdsOf(filters') = IdsOf(filters) \ {lastOp'.id}
       /\ Len(filters') = Cardinality(IdsOf(filters'))
       /\ \A j \in 1..Len(filters') :
            filters'[j] = filters[PlaceOf(filters, filters'[j].id)]
       /\ \A j, k \in 1..Len(filters') :
            j < k => PlaceOf(filters, filters'[j].id)
                       < PlaceOf(filters, filters'[k].id)
       /\ lastOp'.id \notin IdsOf(filters) => filters' = filters
       /\ UNCHANGED <<searchState, searchQuery, searchResponse>>]_vars

\* C21 witness: a filter has just been removed from between two others, one
\* of them with a value.
C21_Witness ==
  /\ lastOp.op = "remove"
  /\ Len(filters) = 2
  /\ filters[1].id > lastOp.id
  /\ filters[2].id < lastOp.id
  /\ \E i \in 1..2 : filters[i].state # Undefined

\* C22: toggleVisible(id) flips the visible flag of the filter with that id
\* and changes nothing else of the collection; applied a second time it
\* gives the original collection back.
C22_ToggleFlipsOne ==
  [][lastOp'.op = "toggle" =>
       /\ Len(filters') = Len(filters)
       /\ \A i \in 1..Len(filters) :
            filters'[i] = IF filters[i].id = lastOp'.id
                          THEN [filters[i] EXCEPT !.hidden = ~filters[i].hidden]
                          ELSE filters[i]
       /\ ToggleFilter(filters', filters', lastOp'.id) = filters]_vars

\* C22 witness: a hidden filter with a value has just been made visible
\* next to a filter that stays hidden.
C22_Witness ==
  /\ lastOp.op = "toggle"
  /\ \E i, j \in 1..Len(filters) :
       /\ filters[i].id = lastOp.id
       /\ ~filters[i].hidden
       /\ filters[i].state # Undefined
       /\ filters[j].hidden

\* the collection fs with the hidden flags given by h
WithHidden(fs, h) == [i \in 1..Len(fs) |-> [fs[i] EXCEPT !.hidden = h[i]]]

\* C23: for the free text and the filters of the session and any other
\* choice of the visible flags of these filters, the query is valid in both
\* cases or in neither and the query built is the same.
C23_VisibilityIrrelevant ==
  \A h \in [1..Len(filters) -> BOOLEAN] :
    /\ ValidQuery(query, WithHidden(filters, h)) = ValidQuery(query, filters)
    /\ BuildQuery(query, WithHidden(filters, h)) = BuildQuery(query, filters)

\* C23 witness: a visible and a hidden filter both hold a value and a query
\* built from them has been sent.
C23_Witness ==
  /\ \E i, j \in 1..Len(filters) :
       /\ filters[i].hidden /\ filters[i].state # Undefined
       /\ ~filters[j].hidden /\ filters[j].state # Undefined
  /\ searchQuery # Undefined

\* the outcome is a response with success status and data
IsSuccess(outcome) ==
  /\ outcome \in Responses
  /\ outcome.status = RR_SUCCESS
  /\ outcome.data # Undefined

\* C24: a state with lifecycle Success has a stored response, and it is the
\* aggregator's output for the raw list of the success response that set
\* Success: a step that ends in Success is the arrival of a success
\* response and stores the aggregate of its raw list, or it starts in
\* Success and leaves the stored response as it is.
C24_SuccessHoldsAggregate ==
  [][searchState' = SEARCH_SUCCESS =>
       /\ searchResponse' # Undefined
       /\ IF lastOp'.op = "response"
          THEN /\ IsSuccess(lastOp'.outcome)
               /\ searchResponse' =
                    [results |-> AggregateResults(lastOp'.outcome.data.results)]
          ELSE /\ searchState = SEARCH_SUCCESS
               /\ searchResponse' = searchResponse]_vars

\* C24 witness: a second success response has arrived, with a raw list
\* that holds a repeated record, after an earlier request had settled.
C24_Witness ==
  /\ lastOp.op = "response"
  /\ IsSuccess(lastOp.outcome)
  /\ lastOp.outcome.data.results = <<"r2", "r2">>
  /\ searchState = SEARCH_SUCCESS
  /\ Len(requests) >= 2
  /\ \A i \in 1..Len(requests) : requests[i] = "settled"

\* the step is an accepted submission (a submit or a searchRelated that
\* passed the validity test)
AcceptedSubmission ==
  /\ lastOp'.op \in {"submit", "searchRelated"}
  /\ lastOp'.sent # Undefined

\* C25: the active query changes only at an accepted submission, where it
\* becomes the query built by that submission, and at a reset; no add,
\* remove, update, toggle, text edit, rejected submit or response arrival
\* changes it.
C25_ActiveQueryIsSnapshot ==
  [][/\ AcceptedSubmission => searchQuery' = lastOp'.sent
     /\ (~AcceptedSubmission /\ lastOp'.op # "reset")
          => searchQuery' = searchQuery]_vars

\* C25 witness: the free text in the input differs from the text of the
\* active query after an edit that followed the submission.
C25_Witness ==
  /\ lastOp.op = "setQuery"
  /\ searchQuery # Undefined
  /\ searchQuery.query # query

\* C26: a failed fetch of the source list leaves the source set at the
\* built-in default and changes nothing else of the session: lifecycle,
\* filters, free text, active query, stored response and the validity of
\* the query (so that a submit is accepted afterwards as it was before).
C26_FetchFailureKeepsDefault ==
  [][lastOp'.op = "fetchSourcesFail" =>
       /\ sources' = DEFAULT_SOURCES
       /\ UNCHANGED <<query, filters, searchState, searchResponse,
                      searchQuery, requests>>
       /\ ValidQuery(query', filters') = ValidQuery(query, filters)]_vars

\* C26 witness: a submit has been accepted after the fetch of the source
\* list had failed.
C26_Witness ==
  /\ sourcesFetch = "rejected"
  /\ sources = DEFAULT_SOURCES
  /\ lastOp.op = "submit"
  /\ lastOp.sent # Undefined
  /\ searchState = SEARCH_REQUESTING

\* the collection fs with every filter hidden when hide holds
HiddenWhen(fs, hide) ==
  [i \in 1..Len(fs) |-> [fs[i] EXCEPT !.hidden = hide \/ fs[i].hidden]]

\* C28: a submit leaves the ids, kinds, values and order of the filters and
\* the free text as they are and changes visibility only (to hidden, when it
\* is accepted); the submit inside searchRelated does so to the collection
\* after the upsert.  The arrival of a response changes nothing but the
\* lifecycle state and the stored response.
C28_SubmitAndResponseFrame ==
  [][/\ lastOp'.op = "submit"
          => /\ filters' = HiddenWhen(filters, lastOp'.sent # Undefined)
             /\ query' = query
     /\ lastOp'.op = "searchRelated"
          => /\ filters' = HiddenWhen(lastOp'.upserted, lastOp'.sent # Undefined)
             /\ query' = query
     /\ lastOp'.op = "response"
          => UNCHANGED <<filters, query, searchQuery, sources>>]_vars

\* C28 witness: a submit has been accepted with a filter that holds a value
\* and one that holds none in the collection.
C28_Witness ==
  /\ lastOp.op = "submit"
  /\ lastOp.sent # Undefined
  /\ \E i, j \in 1..Len(filters) :
       /\ filters[i].state # Undefined
       /\ filters[j].state = Undefined
       /\ filters[j].type \in {FT_SOURCE, FT_RELATED_FILE}

\* C29: a submit with a valid query while the lifecycle is Requesting is
\* accepted: it issues one more request and leaves the earlier ones as they
\* are, the active query becomes the query it built and the lifecycle stays
\* Requesting.
C29_SubmitWhileRequesting ==
  [][(/\ lastOp'.op = "submit"
      /\ searchState = SEARCH_REQUESTING
      /\ ValidQuery(query, filters))
     => (/\ requests' = Append(requests, "pending")
         /\ searchQuery' = BuildQuery(query, filters)
         /\ lastOp'.sent = searchQuery'
         /\ searchState' = SEARCH_REQUESTING)]_vars

\* C29 witness: three requests issued by submits are outstanding at once
\* and the active query is not the one of the first.
C29_Witness ==
  /\ lastOp.op = "submit"
  /\ searchState = SEARCH_REQUESTING
  /\ Len(requests) = 3
  /\ \A i \in 1..3 : requests[i] = "pending"
  /\ searchQuery.filters # <<>>

\* C30: a reset sets the source set to the built-in default and starts no
\* fetch of the source list.
C30_ResetDropsSources ==
  [][lastOp'.op = "reset" =>
       /\ sources' = DEFAULT_SOURCES
       /\ sourcesFetch' = sourcesFetch]_vars

\* C30 witness: after a reset the source set is the default although the
\* source list had been loaded, and no fetch is pending.
C30_Witness ==
  /\ lastOp.op = "reset"
  /\ sourcesFetch = "resolved"
  /\ sources = DEFAULT_SOURCES
  /\ sources # FETCHED_SOURCES

\* C27: when every issued request settles, a state with lifecycle
\* Requesting is followed by a state with lifecycle Success, Failed or
\* Clean.
C27_RequestingEnds ==
  (searchState = SEARCH_REQUESTING)
    ~> (searchState \in {SEARCH_SUCCESS, SEARCH_FAILED, CLEAN})

\* C27 witness: after the last event of the user, the arrival of the
\* outcome of the last pending request has ended Requesting.
C27_Witness ==
  /\ events = MaxLiveEvents
  /\ lastOp.op = "response"
  /\ searchState \in {SEARCH_SUCCESS, SEARCH_FAILED}
  /\ Len(requests) >= 2
  /\ \A i \in 1..Len(requests) : requests[i] = "settled"

====
